---- MODULE Spec2Model ----
(***************************************************************************)
(* Model of Specfem3DGlobe/Mesher.py: the Mesher component's inventory,    *)
(* its _validate, _configure, nproc and execute methods, and the linear    *)
(* pipeline (normalize -> validate -> execute) that drives them.           *)
(*                                                                         *)
(* The source is Python 2: "/" on two ints is flooring division and "%"    *)
(* takes the sign of the (here always positive) divisor, which is what     *)
(* \div and % of Integers compute.                                         *)
(***************************************************************************)
EXTENDS Integers, Sequences, FiniteSets, TLC

(***************************************************************************)
(* Bounds of the explored input space.                                     *)
(***************************************************************************)
MinNex == 46
MaxNex == 66
MaxNproc == 3
MaxPasses == 2

\* pyre.units.angle.deg: the size of one degree in the base unit in which a
\* dimensional angle is held (here one degree is 60 base units).
deg == 60

\* Angles the inventory can hold: whole degrees, carried as dimensionals.
WidthDegrees == {80, 90}
CenterDegrees == {45}
ExtraNex == {-8, 16}

NexValues == (MinNex..MaxNex) \cup ExtraNex
NprocValues == 1..MaxNproc
Scripts == {"script1", "script2"}

\* The inventory of a Mesher: every declared property, with the values its
\* type and validator admit.
Inventory ==
    [SAVE_MESH_FILES : {FALSE},
     dry : BOOLEAN,
     angular_width_xi : {d * deg : d \in WidthDegrees},
     angular_width_eta : {d * deg : d \in WidthDegrees},
     center_latitude : {d * deg : d \in CenterDegrees},
     center_longitude : {0 * deg},
     gamma_rotation_azimuth : {0 * deg},
     NCHUNKS : {1, 2, 3, 6},
     NEX_XI : NexValues,
     NEX_ETA : NexValues,
     NPROC_XI : NprocValues,
     NPROC_ETA : NprocValues]

VARIABLES
    mesher,    \* the component's inventory (the configuration)
    mesher0,   \* the inventory as it was constructed
    attrs,     \* instance attributes assigned outside the inventory
    reports,   \* the error list of each validation pass, oldest first
    pc,        \* position of the pipeline
    script,    \* the argument the pipeline gave execute
    calls,     \* arguments of the calls made into meshfem3D
    out        \* what execute printed

vars == <<mesher, mesher0, attrs, reports, pc, script, calls, out>>

(***************************************************************************)
(* context.error(ValueError(msg), items=[...]): one more entry.            *)
(***************************************************************************)
error(context, msg, items) == Append(context, [msg |-> msg, items |-> items])

(***************************************************************************)
(* Messages of the twelve checks of _validate.                             *)
(***************************************************************************)
MsgWidthXi == "'angular-width-xi' must be 90 degrees for more than one chunk"
MsgWidthEta == "'angular-width-eta' must be 90 degrees for more than two chunks"
MsgNprocEqual == "'nproc-xi' and 'nproc-eta' must be equal for more than two chunks"
MsgNexXi8Nproc == "'nex-xi' must be a multiple of 8*nproc-xi"
MsgNexEta8Nproc == "'nex-eta' must be a multiple of 8*nproc-eta"
MsgNexXi8 == "'nex-xi' must be a multiple of 8"
MsgNexEta8 == "'nex-eta' must be a multiple of 8"
MsgNexXiMin == "'nex-xi' must be greater than 48 to cut the sphere into slices with positive Jacobian"
MsgNexEtaMin == "'nex-eta' must be greater than 48 to cut the sphere into slices with positive Jacobian"
MsgPerProcXi16 == "'nex-xi / nproc-xi' (i.e., elements per processor) must be a multiple of 16 for outer core doubling"
MsgPerProcEta16 == "'nex-eta / nproc-eta' (i.e., elements per processor) must be a multiple of 16 for outer core doubling"
MsgPerProcEqual == "must have the same number of elements per processor in both directions for more than two chunks"

\* number of elements in each slice (i.e. per processor)
NEX_PER_PROC_XI(self) == self.NEX_XI \div self.NPROC_XI
NEX_PER_PROC_ETA(self) == self.NEX_ETA \div self.NPROC_ETA

(***************************************************************************)
(* The twelve if-statements of _validate, in source order.  Each takes the *)
(* context as the statements before it left it and returns it as it        *)
(* leaves it.                                                              *)
(***************************************************************************)
check_angular_width_xi(self, context) ==
    IF self.NCHUNKS > 1 /\ self.angular_width_xi # 90 * deg
    THEN error(context, MsgWidthXi, <<"angular_width_xi">>)
    ELSE context

\* the eta check gated like the xi check
check_angular_width_eta_gate1(self, context) ==
    IF self.NCHUNKS > 1 /\ self.angular_width_eta # 90 * deg
    THEN error(context, MsgWidthEta, <<"angular_width_eta">>)
    ELSE context

check_angular_width_eta(self, context) ==
    IF self.NCHUNKS > 2 /\ self.angular_width_eta # 90 * deg
    THEN error(context, MsgWidthEta, <<"angular_width_eta">>)
    ELSE context

check_nproc_equal(self, context) ==
    IF self.NCHUNKS > 2 /\ self.NPROC_XI # self.NPROC_ETA
    THEN error(context, MsgNprocEqual, <<"NPROC_XI", "NPROC_ETA">>)
    ELSE context

check_nex_xi_8nproc(self, context) ==
    IF ((self.NEX_XI \div 8) % self.NPROC_XI) # 0
    THEN error(context, MsgNexXi8Nproc, <<"NEX_XI">>)
    ELSE context

\* the same check with the remainder taken before the division
check_nex_eta_8nproc_mod8(self, context) ==
    IF ((self.NEX_ETA % 8) % self.NPROC_ETA) # 0
    THEN error(context, MsgNexEta8Nproc, <<"NEX_ETA">>)
    ELSE context

check_nex_eta_8nproc(self, context) ==
    IF ((self.NEX_ETA \div 8) % self.NPROC_ETA) # 0
    THEN error(context, MsgNexEta8Nproc, <<"NEX_ETA">>)
    ELSE context

\* the multiple-of-8 check on nex-xi left out
check_nex_xi_8_dropped(self, context) == context

check_nex_xi_8(self, context) ==
    IF self.NEX_XI % 8 # 0
    THEN error(context, MsgNexXi8, <<"NEX_XI">>)
    ELSE context

check_nex_eta_8(self, context) ==
    IF self.NEX_ETA % 8 # 0
    THEN error(context, MsgNexEta8, <<"NEX_ETA">>)
    ELSE context

\* the minimum check rejecting 48 itself
check_nex_xi_min_le(self, context) ==
    IF self.NEX_XI <= 48
    THEN error(context, MsgNexXiMin, <<"NEX_XI">>)
    ELSE context

check_nex_xi_min(self, context) ==
    IF self.NEX_XI < 48
    THEN error(context, MsgNexXiMin, <<"NEX_XI">>)
    ELSE context

check_nex_eta_min(self, context) ==
    IF self.NEX_ETA < 48
    THEN error(context, MsgNexEtaMin, <<"NEX_ETA">>)
    ELSE context

\* the outer core doubling check on xi left out
check_per_proc_xi_16_dropped(self, context) == context

check_per_proc_xi_16(self, context) ==
    IF NEX_PER_PROC_XI(self) % 16 # 0
    THEN error(context, MsgPerProcXi16, <<"NEX_XI", "NPROC_XI">>)
    ELSE context

check_per_proc_eta_16(self, context) ==
    IF NEX_PER_PROC_ETA(self) % 16 # 0
    THEN error(context, MsgPerProcEta16, <<"NEX_ETA", "NPROC_ETA">>)
    ELSE context

check_per_proc_equal(self, context) ==
    IF self.NCHUNKS > 2 /\ NEX_PER_PROC_XI(self) # NEX_PER_PROC_ETA(self)
    THEN error(context, MsgPerProcEqual,
               <<"NEX_XI", "NPROC_XI", "NEX_ETA", "NPROC_ETA">>)
    ELSE context

(***************************************************************************)
(* Mesher._validate(self, context).  The value is the component and the    *)
(* context as the method leaves them.  Component._validate of the base     *)
(* class, called first, reports nothing.                                   *)
(***************************************************************************)
ValidateChain(self, context) ==
    LET c1 == check_angular_width_xi(self, context)
        c2 == check_angular_width_eta(self, c1)
        c3 == check_nproc_equal(self, c2)
        c4 == check_nex_xi_8nproc(self, c3)
        c5 == check_nex_eta_8nproc(self, c4)
        c6 == check_nex_xi_8(self, c5)
        c7 == check_nex_eta_8(self, c6)
        c8 == check_nex_xi_min(self, c7)
        c9 == check_nex_eta_min(self, c8)
        c10 == check_per_proc_xi_16(self, c9)
        c11 == check_per_proc_eta_16(self, c10)
        c12 == check_per_proc_equal(self, c11)
    IN c12

\* a _validate that returns at the first error it reports
_validate_first_error(self, context) ==
    LET full == ValidateChain(self, context)
    IN [self |-> self,
        context |-> IF Len(full) > Len(context)
                    THEN SubSeq(full, 1, Len(context) + 1)
                    ELSE full]

\* a _validate that rounds nex-xi up to the next multiple of 8 in place
_validate_rounding(self, context) ==
    LET fixed == [self EXCEPT !.NEX_XI = ((self.NEX_XI + 7) \div 8) * 8]
    IN [self |-> fixed, context |-> ValidateChain(self, context)]

_validate(self, context) ==
    [self |-> self, context |-> ValidateChain(self, context)]

(***************************************************************************)
(* Mesher._configure(self): the five degree attributes, each the angle     *)
(* divided by deg.  The value is the instance attributes afterwards.       *)
(***************************************************************************)
DerivedNames ==
    {"ANGULAR_WIDTH_XI_IN_DEGREES", "ANGULAR_WIDTH_ETA_IN_DEGREES",
     "CENTER_LATITUDE_IN_DEGREES", "CENTER_LONGITUDE_IN_DEGREES",
     "GAMMA_ROTATION_AZIMUTH"}

setattr(attributes, name, value) ==
    [n \in (DOMAIN attributes) \cup {name} |->
        IF n = name THEN value ELSE attributes[n]]

_configure(self, attributes) ==
    LET a1 == setattr(attributes, "ANGULAR_WIDTH_XI_IN_DEGREES",
                      self.angular_width_xi \div deg)
        a2 == setattr(a1, "ANGULAR_WIDTH_ETA_IN_DEGREES",
                      self.angular_width_eta \div deg)
        a3 == setattr(a2, "CENTER_LATITUDE_IN_DEGREES",
                      self.center_latitude \div deg)
        a4 == setattr(a3, "CENTER_LONGITUDE_IN_DEGREES",
                      self.center_longitude \div deg)
        a5 == setattr(a4, "GAMMA_ROTATION_AZIMUTH",
                      self.gamma_rotation_azimuth \div deg)
    IN a5

\* Return the total number of processors needed.
nproc(self) == self.NCHUNKS * self.NPROC_XI * self.NPROC_ETA

(***************************************************************************)
(* Mesher.execute(self, script).  world is the calls made into meshfem3D   *)
(* and the lines printed so far; the value is the world afterwards.        *)
(***************************************************************************)
\* an execute that does not look at the dry flag
execute_ignoring_dry(self, arg, world) ==
    [world EXCEPT !.calls = Append(@, arg)]

execute(self, arg, world) ==
    IF self.dry
    THEN [world EXCEPT !.out = Append(@, "execute meshfem3D")]
    ELSE [world EXCEPT !.calls = Append(@, arg)]

(***************************************************************************)
(* The pipeline.  A component is constructed from its inventory, then      *)
(* normalized, then validated, and dispatched if the report is empty.      *)
(***************************************************************************)
Init ==
    /\ mesher \in Inventory
    /\ mesher0 = mesher
    /\ attrs = << >>
    /\ reports = << >>
    /\ pc = "constructed"
    /\ script = "none"
    /\ calls = << >>
    /\ out = << >>

Configure ==
    /\ pc = "constructed"
    /\ attrs' = _configure(mesher, attrs)
    /\ pc' = "configured"
    /\ UNCHANGED <<mesher, mesher0, reports, script, calls, out>>

ValidatePass ==
    LET r == _validate(mesher, << >>)
    IN /\ mesher' = r.self
       /\ reports' = Append(reports, r.context)
       /\ pc' = "validated"
       /\ UNCHANGED <<mesher0, attrs, script, calls, out>>

Validate ==
    /\ pc = "configured"
    /\ ValidatePass

Revalidate ==
    /\ pc = "validated"
    /\ Len(reports) < MaxPasses
    /\ ValidatePass

LastReport == reports[Len(reports)]

Dispatch ==
    /\ pc = "validated"
    /\ LastReport = << >>
    /\ \E s \in Scripts :
        LET w == execute(mesher, s, [calls |-> calls, out |-> out])
        IN /\ script' = s
           /\ calls' = w.calls
           /\ out' = w.out
    /\ pc' = "done"
    /\ UNCHANGED <<mesher, mesher0, attrs, reports>>

Halt ==
    /\ pc = "validated"
    /\ LastReport # << >>
    /\ pc' = "halted"
    /\ UNCHANGED <<mesher, mesher0, attrs, reports, script, calls, out>>

Next == Configure \/ Validate \/ Revalidate \/ Dispatch \/ Halt

Spec == Init /\ [][Next]_vars

(***************************************************************************)
(* Mesher._configure on its own.  The method takes the component as it     *)
(* finds it: it tests neither what validation reported nor whether the     *)
(* degree attributes exist already.  The component it is entered with      *)
(* carries no degree attribute yet, or those an earlier call of _configure *)
(* assigned when the inventory held other angles.                          *)
(***************************************************************************)
ConfigureInventory ==
    [SAVE_MESH_FILES : {FALSE},
     dry : BOOLEAN,
     angular_width_xi : {d * deg : d \in WidthDegrees},
     angular_width_eta : {d * deg : d \in WidthDegrees},
     center_latitude : {d * deg : d \in CenterDegrees},
     center_longitude : {0 * deg},
     gamma_rotation_azimuth : {0 * deg},
     NCHUNKS : {1, 2, 3, 6},
     NEX_XI : {48, 64},
     NEX_ETA : {48, 64},
     NPROC_XI : {1},
     NPROC_ETA : {1}]

AttributesOnEntry ==
    {<< >>} \cup {_configure(earlier, << >>) : earlier \in ConfigureInventory}

InitConfigure ==
    /\ mesher \in ConfigureInventory
    /\ mesher0 = mesher
    /\ attrs \in AttributesOnEntry
    /\ reports = << >>
    /\ pc = "constructed"
    /\ script = "none"
    /\ calls = << >>
    /\ out = << >>

CallConfigure ==
    /\ pc \in {"constructed", "configured"}
    /\ attrs' = _configure(mesher, attrs)
    /\ pc' = IF pc = "constructed" THEN "configured" ELSE "reconfigured"
    /\ UNCHANGED <<mesher, mesher0, reports, script, calls, out>>

NextConfigure == CallConfigure

SpecConfigure == InitConfigure /\ [][NextConfigure]_vars

TypeOK ==
    /\ mesher \in Inventory
    /\ pc \in {"constructed", "configured", "validated", "done", "halted"}
    /\ Len(reports) <= MaxPasses

(***************************************************************************)
(* The rules of the constraint checker, numbered 1 to 12, each with the    *)
(* message of its report entry and the condition under which it is         *)
(* violated.                                                               *)
(***************************************************************************)
Rules == 1..12

RuleMsg(r) ==
    CASE r = 1 -> MsgWidthXi
      [] r = 2 -> MsgWidthEta
      [] r = 3 -> MsgNprocEqual
      [] r = 4 -> MsgNexXi8Nproc
      [] r = 5 -> MsgNexEta8Nproc
      [] r = 6 -> MsgNexXi8
      [] r = 7 -> MsgNexEta8
      [] r = 8 -> MsgNexXiMin
      [] r = 9 -> MsgNexEtaMin
      [] r = 10 -> MsgPerProcXi16
      [] r = 11 -> MsgPerProcEta16
      [] r = 12 -> MsgPerProcEqual

Violates(c, r) ==
    CASE r = 1 -> c.NCHUNKS > 1 /\ c.angular_width_xi # 90 * deg
      [] r = 2 -> c.NCHUNKS > 2 /\ c.angular_width_eta # 90 * deg
      [] r = 3 -> c.NCHUNKS > 2 /\ c.NPROC_XI # c.NPROC_ETA
      [] r = 4 -> (c.NEX_XI \div 8) % c.NPROC_XI # 0
      [] r = 5 -> (c.NEX_ETA \div 8) % c.NPROC_ETA # 0
      [] r = 6 -> c.NEX_XI % 8 # 0
      [] r = 7 -> c.NEX_ETA % 8 # 0
      [] r = 8 -> c.NEX_XI < 48
      [] r = 9 -> c.NEX_ETA < 48
      [] r = 10 -> (c.NEX_XI \div c.NPROC_XI) % 16 # 0
      [] r = 11 -> (c.NEX_ETA \div c.NPROC_ETA) % 16 # 0
      [] r = 12 -> c.NCHUNKS > 2 /\
                   (c.NEX_XI \div c.NPROC_XI) # (c.NEX_ETA \div c.NPROC_ETA)

ViolatedRules(c) == {r \in Rules : Violates(c, r)}

EntriesOf(rep, r) == {i \in DOMAIN rep : rep[i].msg = RuleMsg(r)}
HasEntry(rep, r) == EntriesOf(rep, r) # {}
RulesIn(rep) == {r \in Rules : HasEntry(rep, r)}
Passes == DOMAIN reports

\* A validate pass has just completed; LastReport is the report it produced.
JustValidated == pc = "validated"

\* C1: the report of a validate pass holds exactly one entry for each
\* violated rule and no other entry, so it has as many entries as there are
\* violated rules: validate never stops at the first failure.
C1_NoShortCircuit ==
    JustValidated =>
        LET rep == LastReport
            violated == ViolatedRules(mesher0)
        IN /\ Len(rep) = Cardinality(violated)
           /\ {rep[i].msg : i \in DOMAIN rep} = {RuleMsg(r) : r \in violated}
           /\ \A i, j \in DOMAIN rep : rep[i].msg = rep[j].msg => i = j

C1_FiveEntries ==
    /\ pc = "halted"
    /\ Len(reports[1]) = 5
    /\ Cardinality(ViolatedRules(mesher0)) = 5

\* C2: the rule-1 entry is reported iff nChunks > 1 and the xi width is not
\* 90 degrees; the rule-2 entry iff nChunks > 2 and the eta width is not 90
\* degrees; the rule-3 entry iff nChunks > 2 and nprocXi # nprocEta.
C2_ChunkGates ==
    JustValidated =>
        LET rep == LastReport
        IN /\ HasEntry(rep, 1) <=>
                (mesher0.NCHUNKS > 1 /\ mesher0.angular_width_xi # 90 * deg)
           /\ HasEntry(rep, 2) <=>
                (mesher0.NCHUNKS > 2 /\ mesher0.angular_width_eta # 90 * deg)
           /\ HasEntry(rep, 3) <=>
                (mesher0.NCHUNKS > 2 /\ mesher0.NPROC_XI # mesher0.NPROC_ETA)
           /\ mesher0.NCHUNKS <= 1 => ~HasEntry(rep, 1)
           /\ mesher0.NCHUNKS <= 2 => ~HasEntry(rep, 2) /\ ~HasEntry(rep, 3)

C2_TwoChunksBadWidths ==
    /\ Passes # {}
    /\ mesher0.NCHUNKS = 2
    /\ mesher0.angular_width_xi # 90 * deg
    /\ mesher0.angular_width_eta # 90 * deg
    /\ mesher0.NPROC_XI # mesher0.NPROC_ETA
    /\ RulesIn(reports[1]) \cap {1, 2, 3} = {1}

\* C3: each violated divisibility rule (4-7, 10, 11) has its entry in the
\* report, and a configuration with nexXi = 50 and nprocXi = 1 is reported
\* with both the rule-4 entry and the rule-6 entry.
C3_DivisibilityTogether ==
    JustValidated =>
        LET rep == LastReport
        IN /\ \A r \in {4, 5, 6, 7, 10, 11} :
                Violates(mesher0, r) => HasEntry(rep, r)
           /\ (mesher0.NEX_XI = 50 /\ mesher0.NPROC_XI = 1) =>
                (HasEntry(rep, 4) /\ HasEntry(rep, 6))

\* C4: the rule-8 entry is reported iff nexXi < 48 and the rule-9 entry iff
\* nexEta < 48, so 48 itself is accepted and 47 is rejected.
C4_MinimumBoundary ==
    JustValidated =>
        LET rep == LastReport
        IN /\ HasEntry(rep, 8) <=> mesher0.NEX_XI < 48
           /\ HasEntry(rep, 9) <=> mesher0.NEX_ETA < 48
           /\ mesher0.NEX_XI = 48 => ~HasEntry(rep, 8)
           /\ mesher0.NEX_XI = 47 => HasEntry(rep, 8)

C4_At48And47 ==
    /\ Passes # {}
    /\ mesher0.NEX_XI = 48
    /\ mesher0.NEX_ETA = 47
    /\ ~HasEntry(reports[1], 8)
    /\ HasEntry(reports[1], 9)

\* C5: meshfem3D is called only for a configuration whose validation report
\* is empty, that is one that violates none of the twelve rules.
C5_ViolationBlocksDispatch ==
    calls # << >> =>
        /\ reports # << >>
        /\ LastReport = << >>
        /\ ViolatedRules(mesher) = {}

C5_Dispatched ==
    /\ pc = "done"
    /\ calls # << >>
    /\ LastReport = << >>

\* C6: execute with the dry flag set makes no call into meshfem3D and
\* changes neither the configuration, the derived fields nor the reports (it
\* only prints); execute with the flag clear calls meshfem3D exactly once,
\* with the script it was given.
C6_DryRun ==
    [][pc' = "done" =>
        /\ mesher' = mesher
        /\ attrs' = attrs
        /\ reports' = reports
        /\ IF mesher.dry
           THEN calls' = calls /\ out' # out
           ELSE calls' = Append(calls, script') /\ out' = out]_vars

C6_DryDone ==
    /\ pc = "done"
    /\ mesher.dry
    /\ calls = << >>
    /\ out # << >>

\* C7: validate leaves every field of the configuration as it was, and a
\* second validate pass on the same configuration yields the report of the
\* first (same entries, same order, same offending fields).
C7_ValidateIdempotent ==
    /\ mesher = mesher0
    /\ \A k \in Passes : k > 1 => reports[k] = reports[k - 1]

C7_TwoPasses ==
    /\ Len(reports) = 2
    /\ Len(reports[1]) >= 2
    /\ mesher0.NEX_XI = 50

ScenarioC(c) ==
    /\ c.NCHUNKS = 6
    /\ c.NEX_XI = 64 /\ c.NPROC_XI = 2
    /\ c.NEX_ETA = 64 /\ c.NPROC_ETA = 3
    /\ c.angular_width_xi = 90 * deg
    /\ c.angular_width_eta = 90 * deg

\* C8: for nChunks=6, nexXi=64, nprocXi=2, nexEta=64, nprocEta=3 and both
\* widths at 90 degrees the report holds the rule-3 and the rule-5 entry,
\* and its entries are exactly those of the rules violated under flooring
\* division: 3, 5, 11 and 12.
C8_ScenarioC ==
    ScenarioC(mesher0) =>
        \A k \in Passes :
            /\ HasEntry(reports[k], 3)
            /\ HasEntry(reports[k], 5)
            /\ RulesIn(reports[k]) = {3, 5, 11, 12}
            /\ Len(reports[k]) = 4

C8_ScenarioCValidated ==
    /\ ScenarioC(mesher0)
    /\ pc = "halted"
    /\ Len(reports[1]) = 4

C10_DivisibilityCaught ==
    JustValidated =>
        LET rep == LastReport
        IN /\ rep = << >> =>
                /\ mesher0.NEX_XI % (16 * mesher0.NPROC_XI) = 0
                /\ mesher0.NEX_ETA % (16 * mesher0.NPROC_ETA) = 0
                /\ mesher0.NEX_XI >= 48
                /\ mesher0.NEX_ETA >= 48
           /\ mesher0.NEX_XI % mesher0.NPROC_XI # 0 =>
                RulesIn(rep) \cap {4, 6, 10} # {}
           /\ mesher0.NEX_ETA % mesher0.NPROC_ETA # 0 =>
                RulesIn(rep) \cap {5, 7, 11} # {}

C10_ValidWithThreeProcs ==
    /\ Passes # {}
    /\ reports[1] = << >>
    /\ mesher0.NPROC_XI = 3
    /\ mesher0.NPROC_ETA = 2
    /\ mesher0.NEX_XI = 48
    /\ mesher0.NEX_ETA = 64

====
